---- MODULE Spec2Model ----
(***************************************************************************)
(* Equipment API (src/index.js): city resolution (ensureCityByName),       *)
(* module reconciliation (replaceUserEquipModules) and the equipment       *)
(* handlers POST/PUT/DELETE /equipamentos, over the three tables cidades,  *)
(* maquinas and usuarios_equipamentos.                                     *)
(*                                                                         *)
(* Every request is a task; one step of a task is the code between two     *)
(* awaits, i.e. one statement sent to the store (the synchronous code up   *)
(* to the first await is part of the first step).                          *)
(*                                                                         *)
(* Text is a sequence of characters.  An accented letter is one character  *)
(* written base + mark ("a~" is a-tilde, "a'" is a-acute); "~" and "'"     *)
(* alone stand for the combining marks U+0303 and U+0301.                  *)
(***************************************************************************)
EXTENDS Integers, Sequences, FiniteSets, Bags, TLC

VARIABLES
  collation,             \* collation of the store's text columns (not set by the code)
  cidades,               \* table cidades: row i has id i
  maquinas,              \* table maquinas: row i has id i
  usuarios_equipamentos, \* table usuarios_equipamentos: a bag of committed rows
  pc,                    \* per task: the await it is suspended at
  req,                   \* per task: the request and the handler's locals
  resp,                  \* per task: the response (or the value returned / error thrown)
  txn                    \* per task: the transaction of replaceUserEquipModules

vars == <<collation, cidades, maquinas, usuarios_equipamentos, pc, req, resp, txn>>

(***************************************************************************)
(* Bounds                                                                  *)
(***************************************************************************)
MaxCities == 2
MaxEquip == 2

Procs == {"t1", "t2"}
Caller == {"t1"}

(***************************************************************************)
(* JavaScript values                                                       *)
(***************************************************************************)
Undef == [t |-> "undefined"]
Null == [t |-> "null"]
NaN == [t |-> "NaN"]
Str(s) == [t |-> "string", v |-> s]
Num(n) == [t |-> "number", v |-> n]
Bool(b) == [t |-> "boolean", v |-> b]

Truthy(x) ==
  CASE x.t = "string" -> x.v # <<>>
    [] x.t = "number" -> x.v # 0
    [] x.t = "boolean" -> x.v
    [] OTHER -> FALSE

IsNullish(x) == x.t \in {"undefined", "null"}

Digits == <<"0", "1", "2", "3", "4", "5", "6", "7", "8", "9">>

\* String(x)
ToStr(x) ==
  CASE x.t = "string" -> x.v
    [] x.t = "number" -> <<Digits[x.v + 1]>>
    [] x.t = "boolean" -> IF x.v THEN <<"t", "r", "u", "e">> ELSE <<"f", "a", "l", "s", "e">>
    [] x.t = "null" -> <<"n", "u", "l", "l">>
    [] x.t = "NaN" -> <<"N", "a", "N">>
    [] OTHER -> <<"u", "n", "d", "e", "f", "i", "n", "e", "d">>

\* Number(x), for the values an id takes
ToNum(x) ==
  CASE x.t = "number" -> x
    [] x.t = "null" -> Num(0)
    [] x.t = "string" /\ Len(x.v) = 1 /\ \E d \in 1..10 : Digits[d] = x.v[1] ->
         Num((CHOOSE d \in 1..10 : Digits[d] = x.v[1]) - 1)
    [] x.t = "string" /\ x.v = <<>> -> Num(0)
    [] OTHER -> NaN

(***************************************************************************)
(* Text                                                                    *)
(***************************************************************************)
UpperChars == <<"A", "B", "C", "D", "E", "F", "G", "H", "I", "J", "K", "L", "M",
                "N", "O", "P", "Q", "R", "S", "T", "U", "V", "W", "X", "Y", "Z",
                "A~", "A'">>
LowerChars == <<"a", "b", "c", "d", "e", "f", "g", "h", "i", "j", "k", "l", "m",
                "n", "o", "p", "q", "r", "s", "t", "u", "v", "w", "x", "y", "z",
                "a~", "a'">>

LowerChar(c) ==
  IF \E i \in 1..Len(UpperChars) : UpperChars[i] = c
  THEN LowerChars[CHOOSE i \in 1..Len(UpperChars) : UpperChars[i] = c]
  ELSE c

UpperChar(c) ==
  IF \E i \in 1..Len(LowerChars) : LowerChars[i] = c
  THEN UpperChars[CHOOSE i \in 1..Len(LowerChars) : LowerChars[i] = c]
  ELSE c

RECURSIVE MapLower(_)
MapLower(s) == IF s = <<>> THEN <<>> ELSE <<LowerChar(Head(s))>> \o MapLower(Tail(s))

RECURSIVE MapUpper(_)
MapUpper(s) == IF s = <<>> THEN <<>> ELSE <<UpperChar(Head(s))>> \o MapUpper(Tail(s))

toLowerCase(s) == MapLower(s)
toUpperCase(s) == MapUpper(s)

RECURSIVE TrimStart(_)
TrimStart(s) == IF s # <<>> /\ Head(s) = " " THEN TrimStart(Tail(s)) ELSE s

RECURSIVE TrimEnd(_)
TrimEnd(s) ==
  IF s # <<>> /\ s[Len(s)] = " " THEN TrimEnd(SubSeq(s, 1, Len(s) - 1)) ELSE s

trim(s) == TrimEnd(TrimStart(s))

\* s.slice(0, n)
SliceTo(s, n) == SubSeq(s, 1, IF Len(s) < n THEN Len(s) ELSE n)

\* s.indexOf(c), 0-based, -1 when absent
IndexOf(s, c) ==
  IF \E i \in 1..Len(s) : s[i] = c
  THEN (CHOOSE i \in 1..Len(s) : s[i] = c /\ \A j \in 1..(i - 1) : s[j] # c) - 1
  ELSE -1

CombiningMarks == {"~", "'"}

\* canonical decomposition of one character
Decompose(c) ==
  CASE c = "a~" -> <<"a", "~">>
    [] c = "A~" -> <<"A", "~">>
    [] c = "a'" -> <<"a", "'">>
    [] c = "A'" -> <<"A", "'">>
    [] OTHER -> <<c>>

RECURSIVE Nfd(_)
Nfd(s) == IF s = <<>> THEN <<>> ELSE Decompose(Head(s)) \o Nfd(Tail(s))

StripMarks(s) == SelectSeq(s, LAMBDA c : c \notin CombiningMarks)

normalizeName(s) == trim(toLowerCase(StripMarks(Nfd(s))))

(***************************************************************************)
(* The store's text comparison.  The code sets no collation; MySQL's are   *)
(* accent- and case-insensitive (ai_ci), accent-sensitive (as_ci) or also  *)
(* case-sensitive (as_cs, binary).                                         *)
(***************************************************************************)
Collations == {"ai_ci", "as_ci", "as_cs"}

SqlTrim(s) == TrimEnd(TrimStart(s))
SqlLower(s) == MapLower(s)
SqlUpper(s) == MapUpper(s)

CollKey(c, s) ==
  LET a == IF c = "ai_ci" THEN StripMarks(Nfd(s)) ELSE s
  IN IF c = "as_cs" THEN a ELSE MapLower(a)

SqlEq(c, a, b) == CollKey(c, a) = CollKey(c, b)

\* text LIKE 'prefix%'
SqlLikePrefix(c, text, prefix) ==
  /\ Len(text) >= Len(prefix)
  /\ CollKey(c, SubSeq(text, 1, Len(prefix))) = CollKey(c, prefix)

\* the results a LIMIT n can give of the matching rows S
LimitSets(S, n) ==
  IF Cardinality(S) <= n THEN {S} ELSE {T \in SUBSET S : Cardinality(T) = n}

(***************************************************************************)
(* Tasks                                                                   *)
(***************************************************************************)
NoBody ==
  [tipo_id |-> Undef, nome |-> Undef, serialNumber |-> Undef,
   data_instalacao |-> Undef, status |-> Undef, cidade |-> Undef,
   cidade_nome |-> Undef, uf |-> Undef, observacao |-> Undef,
   aspersor |-> Undef, usuario_id |-> Undef, maquina_id |-> Undef,
   agua_gelada |-> Undef, agua_quente |-> Undef, agua_pet |-> Undef]

NoReq ==
  [op |-> "none", id |-> 0, body |-> NoBody, nomeCidade |-> <<>>, uf |-> Null,
   cidadeId |-> Null, curObs |-> Null, hard |-> FALSE]

NoResp == [status |-> 0, error |-> "", value |-> Null, missing |-> <<>>, tier |-> 0]

NoTxn ==
  [st |-> "none", uid |-> 0, mid |-> 0, gel |-> 0, que |-> 0, pet |-> 0,
   del |-> EmptyBag, lock |-> FALSE, overlapped |-> FALSE, got |-> 0, rel |-> 0]

Init ==
  /\ collation \in Collations
  /\ cidades = <<>>
  /\ maquinas = <<>>
  /\ usuarios_equipamentos = EmptyBag
  /\ pc = [p \in Procs |-> "idle"]
  /\ req = [p \in Procs |-> NoReq]
  /\ resp = [p \in Procs |-> NoResp]
  /\ txn = [p \in Procs |-> NoTxn]

\* the task has its response: the next request on this slot starts afresh
Return(p) ==
  /\ pc[p] = "done"
  /\ txn[p].st = "none"
  /\ pc' = [pc EXCEPT ![p] = "idle"]
  /\ req' = [req EXCEPT ![p] = NoReq]
  /\ resp' = [resp EXCEPT ![p] = NoResp]
  /\ UNCHANGED <<collation, cidades, maquinas, usuarios_equipamentos, txn>>

(***************************************************************************)
(* ensureCityByName                                                        *)
(***************************************************************************)
\* const nomeCidade = String(nomeCidadeRaw || "").trim()
CityNome(raw) == trim(ToStr(IF Truthy(raw) THEN raw ELSE Str(<<>>)))

\* const uf = ufRaw ? String(ufRaw).trim().toUpperCase() : null
CityUf(ufRaw) == IF Truthy(ufRaw) THEN Str(toUpperCase(trim(ToStr(ufRaw)))) ELSE Null

\* WHERE UPPER(TRIM(uf)) = UPPER(TRIM(?)), present only when uf is truthy;
\* a NULL column equals nothing
UfClauseWrongColumn(c, row, uf) ==
  Truthy(uf) => SqlEq(c, SqlUpper(SqlTrim(row.nome)), SqlUpper(SqlTrim(uf.v)))
UfClause(c, row, uf) ==
  Truthy(uf) =>
    /\ row.uf.t = "string"
    /\ SqlEq(c, SqlUpper(SqlTrim(row.uf.v)), SqlUpper(SqlTrim(uf.v)))

Tier1LimitOne == 2 - 1
Tier1Limit == 2

\* tier 1: WHERE LOWER(TRIM(nome)) = LOWER(TRIM(?)) [AND uf]
Tier1Rows(c, tbl, nome, uf) ==
  {i \in 1..Len(tbl) :
     /\ SqlEq(c, SqlLower(SqlTrim(tbl[i].nome)), SqlLower(SqlTrim(nome)))
     /\ UfClause(c, tbl[i], uf)}

PrefixLen == 4
Tier2Limit == 20

\* tier 2: WHERE [uf AND] nome LIKE ? with the first 4 characters and '%'
Tier2Rows(c, tbl, nome, uf) ==
  {i \in 1..Len(tbl) :
     /\ UfClause(c, tbl[i], uf)
     /\ SqlLikePrefix(c, tbl[i].nome, SliceTo(nome, PrefixLen))}

\* rows.filter((r) => normalizeName(r.nome) === norm)
Tier2Filtered(tbl, rows, nome) ==
  {i \in rows : normalizeName(tbl[i].nome) = normalizeName(nome)}

\* if (!uf) throw the _badRequest error; otherwise INSERT
CreatesWithoutUf(uf) == TRUE
MayCreate(uf) == Truthy(uf)

\* ensureCityByName returned `value` (null or the row's id) to its caller
CityReturn(p, value, tier) ==
  IF req[p].op = "resolve"
  THEN /\ pc' = [pc EXCEPT ![p] = "done"]
       /\ resp' = [resp EXCEPT ![p] = [NoResp EXCEPT !.value = value, !.tier = tier]]
       /\ UNCHANGED req
  ELSE /\ pc' = [pc EXCEPT ![p] = IF req[p].op = "create" THEN "postInsert" ELSE "putCurObs"]
       /\ req' = [req EXCEPT ![p].cidadeId = value]
       /\ resp' = [resp EXCEPT ![p] = [NoResp EXCEPT !.tier = tier]]

\* ensureCityByName threw: the handlers answer 400 for _badRequest, else 409
CityThrow(p, err) ==
  /\ pc' = [pc EXCEPT ![p] = "done"]
  /\ resp' = [resp EXCEPT ![p] =
       [NoResp EXCEPT !.error = err,
                      !.status = IF req[p].op = "resolve" THEN 0
                                 ELSE IF err = "CityCreationRequiresState" THEN 400
                                 ELSE 409]]
  /\ UNCHANGED req

\* the code after the tier-2 query found nothing: throw, or go on to the INSERT
CityNotFound(p) ==
  IF MayCreate(req[p].uf)
  THEN /\ pc' = [pc EXCEPT ![p] = "cityInsert"]
       /\ UNCHANGED <<req, resp>>
  ELSE CityThrow(p, "CityCreationRequiresState")

\* the tier-1 SELECT and the code up to the next await
CityExact(p) ==
  /\ pc[p] = "cityExact"
  /\ \E rows \in LimitSets(Tier1Rows(collation, cidades, req[p].nomeCidade, req[p].uf),
                           Tier1Limit) :
       IF Cardinality(rows) = 1
       THEN CityReturn(p, Num(CHOOSE i \in rows : TRUE), 1)
       ELSE IF Cardinality(rows) > 1
       THEN CityThrow(p, "AmbiguousCity")
       ELSE /\ pc' = [pc EXCEPT ![p] = "cityPrefix"]
            /\ UNCHANGED <<req, resp>>
  /\ UNCHANGED <<collation, cidades, maquinas, usuarios_equipamentos, txn>>

\* the tier-2 SELECT, the filter and the code up to the next await
CityPrefix(p) ==
  /\ pc[p] = "cityPrefix"
  /\ \E rows \in LimitSets(Tier2Rows(collation, cidades, req[p].nomeCidade, req[p].uf),
                           Tier2Limit) :
       LET filtered == Tier2Filtered(cidades, rows, req[p].nomeCidade)
       IN IF Cardinality(filtered) = 1
          THEN CityReturn(p, Num(CHOOSE i \in filtered : TRUE), 2)
          ELSE IF Cardinality(filtered) > 1
          THEN CityThrow(p, "AmbiguousCity")
          ELSE CityNotFound(p)
  /\ UNCHANGED <<collation, cidades, maquinas, usuarios_equipamentos, txn>>

\* the INSERT followed by a throw
CityInsertThenThrow(p) ==
  /\ pc[p] = "cityInsert"
  /\ Len(cidades) < MaxCities
  /\ cidades' = Append(cidades, [nome |-> req[p].nomeCidade, uf |-> req[p].uf])
  /\ CityThrow(p, "CityCreationRequiresState")
  /\ UNCHANGED <<collation, maquinas, usuarios_equipamentos, txn>>

\* INSERT INTO cidades (nome, uf) VALUES (?, ?)
CityInsert(p) ==
  /\ pc[p] = "cityInsert"
  /\ Len(cidades) < MaxCities
  /\ cidades' = Append(cidades, [nome |-> req[p].nomeCidade, uf |-> req[p].uf])
  /\ CityReturn(p, Num(Len(cidades) + 1), 3)
  /\ UNCHANGED <<collation, maquinas, usuarios_equipamentos, txn>>

\* the first step of ensureCityByName for a task whose locals are r
CityStart(p, r) ==
  IF r.nomeCidade = <<>>
  THEN /\ req' = [req EXCEPT ![p] = r]
       /\ pc' = [pc EXCEPT ![p] = "done"]
       /\ resp' = [resp EXCEPT ![p] = NoResp]
  ELSE /\ req' = [req EXCEPT ![p] = r]
       /\ pc' = [pc EXCEPT ![p] = "cityExact"]
       /\ resp' = [resp EXCEPT ![p] = NoResp]

\* a direct call ensureCityByName(pool, nomeCidadeRaw, ufRaw)
ResolveCity(p, nomeCidadeRaw, ufRaw) ==
  /\ pc[p] = "idle"
  /\ CityStart(p, [NoReq EXCEPT !.op = "resolve",
                                !.nomeCidade = CityNome(nomeCidadeRaw),
                                !.uf = CityUf(ufRaw)])
  /\ UNCHANGED <<collation, cidades, maquinas, usuarios_equipamentos, txn>>

\* inputs of the city specification
CityNameInputs ==
  {Str(<<"S", "a~", "o">>), Str(<<"s", "a", "o">>),
   Str(<<"P", "a", "r", "a", "n", "a'">>), Str(<<" ", "p", "a", "r", "a", "n", "a">>),
   Str(<<" ">>)}
UfInputs == {Null, Str(<<"S", "P">>), Str(<<"s", "p", " ">>), Str(<<"P", "R">>)}

NextCity ==
  \E p \in Caller :
    \/ \E n \in CityNameInputs, u \in UfInputs : ResolveCity(p, n, u)
    \/ CityExact(p)
    \/ CityPrefix(p)
    \/ CityInsert(p)
    \/ Return(p)

SpecCity == Init /\ [][NextCity]_vars

(***************************************************************************)
(* replaceUserEquipModules                                                 *)
(*                                                                         *)
(* The DELETE and the INSERT run in one transaction on one connection:     *)
(* their changes reach the committed table at the commit.  The DELETE      *)
(* locks the rows (and the gap) of its maquina_id until the transaction    *)
(* ends, so another statement on the same maquina_id waits for it.  This   *)
(* is the store the pool connects to as MySQL ships it: InnoDB tables at   *)
(* REPEATABLE READ, where a DELETE takes next-key locks.  The tables carry *)
(* no unique key the code relies on (src/index.js:157).                    *)
(***************************************************************************)
\* x ? 1 : 0
Flag(x) == IF Truthy(x) THEN 1 ELSE 0

\* the rows of table tbl with maquina_id = mid
RowsOf(tbl, mid) == [r \in {x \in DOMAIN tbl : x.maquina_id = mid} |-> tbl[r]]

\* VALUES (?, ?, ?, ?, ?) with [uid, mid, gel, que, pet]
TxnRowFlagsSwapped(t) ==
  [usuario_id |-> t.uid, maquina_id |-> t.mid,
   agua_gelada |-> t.gel, agua_quente |-> t.pet, agua_pet |-> t.que]
TxnRow(t) ==
  [usuario_id |-> t.uid, maquina_id |-> t.mid,
   agua_gelada |-> t.gel, agua_quente |-> t.que, agua_pet |-> t.pet]

\* whether task p may lock the rows of maquina_id mid
NoLocking(p, mid) == TRUE
LockFree(p, mid) == \A q \in Procs \ {p} : ~(txn[q].lock /\ txn[q].mid = mid)

\* the committed table once the transaction's DELETE has run: unchanged
DeleteAutocommit(tbl, mid) == tbl (-) RowsOf(tbl, mid)
TableAfterTxnDelete(tbl, mid) == tbl

\* the committed table once transaction t has committed
CommitWithoutDelete(tbl, t) == tbl (+) SetToBag({TxnRow(t)})
TableAfterCommit(tbl, t) == (tbl (-) t.del) (+) SetToBag({TxnRow(t)})

\* the same with only the owner id tested
ModulesTxnOwnerOnly(p, usuario_id, maquina_id, gelada, quente, apet) ==
  LET uid == ToNum(usuario_id)
      mid == ToNum(maquina_id)
  IN IF ~Truthy(uid)
     THEN NoTxn
     ELSE [st |-> "begun", uid |-> uid.v, mid |-> IF Truthy(mid) THEN mid.v ELSE 0,
           gel |-> Flag(gelada), que |-> Flag(quente), pet |-> Flag(apet),
           del |-> EmptyBag, lock |-> FALSE, overlapped |-> FALSE, got |-> 0, rel |-> 0]

\* the call up to its first await: nothing when an id is 0 or NaN, else the
\* connection is asked for and the transaction begun
ModulesTxn(p, usuario_id, maquina_id, gelada, quente, apet) ==
  LET uid == ToNum(usuario_id)
      mid == ToNum(maquina_id)
  IN IF ~Truthy(uid) \/ ~Truthy(mid)
     THEN NoTxn
     ELSE [st |-> "begun", uid |-> uid.v, mid |-> mid.v,
           gel |-> Flag(gelada), que |-> Flag(quente), pet |-> Flag(apet),
           del |-> EmptyBag, lock |-> FALSE,
           overlapped |-> \E q \in Procs \ {p} :
                            /\ txn[q].st \in {"begun", "deleted", "inserted"}
                            /\ txn[q].mid = mid.v,
           got |-> 0, rel |-> 0]

\* pool.getConnection() gives the call a connection
TxnConnect(p) ==
  /\ txn[p].st = "begun" /\ txn[p].got = 0
  /\ txn' = [txn EXCEPT ![p].got = 1]
  /\ UNCHANGED <<collation, cidades, maquinas, usuarios_equipamentos, pc, req, resp>>

\* pool.getConnection() rejects: the call throws before its try block
TxnConnFail(p) ==
  /\ txn[p].st = "begun" /\ txn[p].got = 0
  /\ txn' = [txn EXCEPT ![p].st = "failed"]
  /\ UNCHANGED <<collation, cidades, maquinas, usuarios_equipamentos, pc, req, resp>>

\* conn.beginTransaction(), then DELETE FROM usuarios_equipamentos WHERE maquina_id = ?
TxnDelete(p) ==
  /\ txn[p].st = "begun" /\ txn[p].got = 1
  /\ LockFree(p, txn[p].mid)
  /\ txn' = [txn EXCEPT ![p].st = "deleted", ![p].lock = TRUE,
                        ![p].del = RowsOf(usuarios_equipamentos, txn[p].mid)]
  /\ usuarios_equipamentos' = TableAfterTxnDelete(usuarios_equipamentos, txn[p].mid)
  /\ UNCHANGED <<collation, cidades, maquinas, pc, req, resp>>

\* INSERT INTO usuarios_equipamentos ... VALUES (?, ?, ?, ?, ?, NOW(), NOW())
TxnInsert(p) ==
  /\ txn[p].st = "deleted"
  /\ txn' = [txn EXCEPT ![p].st = "inserted"]
  /\ UNCHANGED <<collation, cidades, maquinas, usuarios_equipamentos, pc, req, resp>>

\* conn.commit() and, in finally, conn.release()
TxnCommit(p) ==
  /\ txn[p].st = "inserted"
  /\ usuarios_equipamentos' = TableAfterCommit(usuarios_equipamentos, txn[p])
  /\ txn' = [txn EXCEPT ![p].st = "committed", ![p].lock = FALSE,
                        ![p].rel = txn[p].rel + 1]
  /\ UNCHANGED <<collation, cidades, maquinas, pc, req, resp>>

\* beginTransaction, the DELETE, the INSERT or the commit fails: control goes
\* to the catch
TxnFail(p) ==
  /\ txn[p].st \in {"begun", "deleted", "inserted"} /\ txn[p].got = 1
  /\ txn' = [txn EXCEPT ![p].st = "rollback"]
  /\ UNCHANGED <<collation, cidades, maquinas, usuarios_equipamentos, pc, req, resp>>

\* conn.rollback(), throw e and, in finally, conn.release()
TxnRollback(p) ==
  /\ txn[p].st = "rollback"
  /\ txn' = [txn EXCEPT ![p].st = "failed", ![p].lock = FALSE,
                        ![p].rel = txn[p].rel + 1]
  /\ UNCHANGED <<collation, cidades, maquinas, usuarios_equipamentos, pc, req, resp>>

\* the same with the release left out when the rollback throws
TxnRollbackFailsNoRelease(p) ==
  /\ txn[p].st = "rollback"
  /\ txn' = [txn EXCEPT ![p].st = "failed", ![p].lock = FALSE]
  /\ UNCHANGED <<collation, cidades, maquinas, usuarios_equipamentos, pc, req, resp>>

\* conn.rollback() itself rejects (the connection is lost, so the store drops
\* the transaction): the catch throws that error and finally still runs
\* conn.release()
TxnRollbackFails(p) ==
  /\ txn[p].st = "rollback"
  /\ txn' = [txn EXCEPT ![p].st = "failed", ![p].lock = FALSE,
                        ![p].rel = txn[p].rel + 1]
  /\ UNCHANGED <<collation, cidades, maquinas, usuarios_equipamentos, pc, req, resp>>

\* the caller of replaceUserEquipModules resumes with its result
AwaitModules(p) ==
  /\ pc[p] = "awaitModules"
  /\ txn[p].st \in {"committed", "failed"}
  /\ pc' = [pc EXCEPT ![p] = "done"]
  /\ resp' = [resp EXCEPT ![p] =
       IF txn[p].st = "failed"
       THEN [NoResp EXCEPT !.error = "StoreError",
                           !.status = IF req[p].op = "replace" THEN 0 ELSE 500]
       ELSE [NoResp EXCEPT !.status = CASE req[p].op = "create" -> 201
                                         [] req[p].op = "update" -> 200
                                         [] OTHER -> 0,
                           !.value = Num(req[p].id)]]
  /\ txn' = [txn EXCEPT ![p] = NoTxn]
  /\ UNCHANGED <<collation, cidades, maquinas, usuarios_equipamentos, req>>

\* a direct call replaceUserEquipModules(pool, {usuario_id, maquina_id, ...})
ReplaceModules(p, usuario_id, maquina_id, flags) ==
  /\ pc[p] = "idle"
  /\ LET t == ModulesTxn(p, usuario_id, maquina_id, flags[1], flags[2], flags[3])
     IN /\ txn' = [txn EXCEPT ![p] = t]
        /\ pc' = [pc EXCEPT ![p] = IF t.st = "none" THEN "done" ELSE "awaitModules"]
  /\ req' = [req EXCEPT ![p] =
       [NoReq EXCEPT !.op = "replace",
                     !.body = [NoBody EXCEPT !.usuario_id = usuario_id,
                                             !.maquina_id = maquina_id,
                                             !.agua_gelada = flags[1],
                                             !.agua_quente = flags[2],
                                             !.agua_pet = flags[3]]]]
  /\ resp' = [resp EXCEPT ![p] = NoResp]
  /\ UNCHANGED <<collation, cidades, maquinas, usuarios_equipamentos>>

\* inputs of the module specifications
OwnerInputs == {Num(1), Num(2), Num(0), Undef}
EquipInputs == {Num(1), Num(2), Null}
FlagInputs == {<<Bool(TRUE), Bool(FALSE), Bool(TRUE)>>,
               <<Bool(FALSE), Bool(FALSE), Bool(FALSE)>>,
               <<Num(1), Num(1), Undef>>}

\* the steps of a reconciliation in flight
TxnSteps(p) ==
  \/ TxnConnect(p)
  \/ TxnConnFail(p)
  \/ TxnDelete(p)
  \/ TxnInsert(p)
  \/ TxnCommit(p)
  \/ TxnFail(p)
  \/ TxnRollback(p)
  \/ TxnRollbackFails(p)
  \/ AwaitModules(p)

\* calls one after the other
NextModulesSeq ==
  \E p \in Caller :
    \/ \E u \in OwnerInputs, m \in EquipInputs, f \in FlagInputs : ReplaceModules(p, u, m, f)
    \/ TxnSteps(p)
    \/ Return(p)

SpecModulesSeq == Init /\ [][NextModulesSeq]_vars

\* inputs of the concurrent calls
ConcOwnerInputs == {Num(1), Num(2)}
ConcEquipInputs == {Num(1), Num(2)}
ConcFlagInputs == {<<Bool(TRUE), Bool(FALSE), Bool(TRUE)>>}

\* concurrent calls
NextModules ==
  \E p \in Procs :
    \/ \E u \in ConcOwnerInputs, m \in ConcEquipInputs, f \in ConcFlagInputs :
         ReplaceModules(p, u, m, f)
    \/ TxnSteps(p)
    \/ Return(p)

SpecModules == Init /\ [][NextModules]_vars

(***************************************************************************)
(* JSON text of the observacao column.  An object is written               *)
(* { key value key value ... } and an array [ value value ... ], one token *)
(* per element; a string value is its characters between two quote tokens. *)
(* An object value is its own enumerable properties in the order           *)
(* Object.keys gives them (index keys first, ascending, then the others in *)
(* insertion order) and whether it is an array.                            *)
(***************************************************************************)
Quote == "\""

\* {}
EmptyObj == [arr |-> FALSE, m |-> <<>>]

\* the key is an array index
IsIndexKey(k) == \E d \in 1..10 : Digits[d] = k
KeyIndex(k) == (CHOOSE d \in 1..10 : Digits[d] = k) - 1

JsonValueTokens(v) ==
  CASE v.t = "boolean" -> IF v.v THEN <<"true">> ELSE <<"false">>
    [] v.t = "string" -> <<Quote>> \o v.v \o <<Quote>>
    [] v.t = "number" -> <<Digits[v.v + 1]>>
    [] OTHER -> <<"null">>

RECURSIVE JsonMembers(_)
JsonMembers(m) ==
  IF m = <<>> THEN <<>>
  ELSE <<Head(m).k>> \o JsonValueTokens(Head(m).v) \o JsonMembers(Tail(m))

\* the elements of an array: its other properties are not written
RECURSIVE JsonElements(_)
JsonElements(m) ==
  IF m = <<>> THEN <<>>
  ELSE (IF IsIndexKey(Head(m).k) THEN JsonValueTokens(Head(m).v) ELSE <<>>)
         \o JsonElements(Tail(m))

\* JSON.stringify of an object or an array
JsonStringify(o) ==
  IF o.arr THEN <<"[">> \o JsonElements(o.m) \o <<"]">>
  ELSE <<"{">> \o JsonMembers(o.m) \o <<"}">>

JsonLiteral(tok) ==
  CASE tok = "true" -> Bool(TRUE)
    [] tok = "false" -> Bool(FALSE)
    [] tok = "null" -> Null
    [] OTHER -> ToNum(Str(<<tok>>))

\* the end of the string that opens at token i of ts
StringEnd(ts, i) ==
  CHOOSE j \in (i + 1)..(Len(ts) + 1) :
    /\ (j = Len(ts) + 1 \/ ts[j] = Quote)
    /\ \A n \in (i + 1)..(j - 1) : ts[n] # Quote

RECURSIVE ParseMembers(_)
ParseMembers(ts) ==
  IF Len(ts) < 2 THEN <<>>
  ELSE IF ts[2] = Quote
  THEN LET j == StringEnd(ts, 2)
       IN <<[k |-> ts[1], v |-> Str(SubSeq(ts, 3, j - 1))]>>
            \o ParseMembers(SubSeq(ts, j + 1, Len(ts)))
  ELSE <<[k |-> ts[1], v |-> JsonLiteral(ts[2])]>>
         \o ParseMembers(SubSeq(ts, 3, Len(ts)))

RECURSIVE ParseElements(_, _)
ParseElements(ts, i) ==
  IF ts = <<>> \/ i > 9 THEN <<>>
  ELSE IF ts[1] = Quote
  THEN LET j == StringEnd(ts, 1)
       IN <<[k |-> Digits[i + 1], v |-> Str(SubSeq(ts, 2, j - 1))]>>
            \o ParseElements(SubSeq(ts, j + 1, Len(ts)), i + 1)
  ELSE <<[k |-> Digits[i + 1], v |-> JsonLiteral(ts[1])]>>
         \o ParseElements(Tail(ts), i + 1)

\* the text between the first and the last token
Inner(ts) == SubSeq(ts, 2, Len(ts) - 1)

\* o[k] = v
ObjSet(o, k, v) ==
  LET m == o.m
      pos == IF IsIndexKey(k)
             THEN Cardinality({i \in 1..Len(m) :
                    IsIndexKey(m[i].k) /\ KeyIndex(m[i].k) < KeyIndex(k)})
             ELSE Len(m)
  IN IF \E i \in 1..Len(m) : m[i].k = k
     THEN [o EXCEPT !.m = [i \in 1..Len(m) |->
                             IF m[i].k = k THEN [k |-> k, v |-> v] ELSE m[i]]]
     ELSE [o EXCEPT !.m = SubSeq(m, 1, pos) \o <<[k |-> k, v |-> v]>>
                            \o SubSeq(m, pos + 1, Len(m))]

\* o with the properties of the sequence ps set one after the other
RECURSIVE ObjAssign(_, _)
ObjAssign(o, ps) ==
  IF ps = <<>> THEN o ELSE ObjAssign(ObjSet(o, Head(ps).k, Head(ps).v), Tail(ps))

\* { ...a, ...b }: a new plain object
ObjSpread(a, b) == ObjAssign(ObjAssign(EmptyObj, a.m), b.m)

\* JSON.parse(s) when s is the text of an object or an array
JsonParseObject(s) ==
  IF trim(s)[1] = "["
  THEN [arr |-> TRUE, m |-> ParseElements(Inner(trim(s)), 0)]
  ELSE ObjAssign(EmptyObj, ParseMembers(Inner(trim(s))))

\* whether JSON.parse(s) is a (non-null) object: typeof [] is "object" too
ParsesToObject(s) ==
  LET ts == trim(s)
  IN /\ Len(ts) >= 2
     /\ \/ /\ ts[1] = "{" /\ ts[Len(ts)] = "}"
           /\ JsonMembers(ParseMembers(Inner(ts))) = Inner(ts)
        \/ /\ ts[1] = "[" /\ ts[Len(ts)] = "]"
           /\ JsonElements(ParseElements(Inner(ts), 0)) = Inner(ts)

\* the object a text stands for: itself when it is JSON of an object, else { texto }
ObjOfText(x) ==
  IF ParsesToObject(ToStr(x)) THEN JsonParseObject(ToStr(x))
  ELSE ObjSet(EmptyObj, "texto", Str(ToStr(x)))

\* !!(aspersor === true || aspersor === 1 || aspersor === "1")
AspersorOn(x) == x = Bool(TRUE) \/ x = Num(1) \/ x = Str(<<"1">>)

(***************************************************************************)
(* Handlers: what POST and PUT /equipamentos share                         *)
(***************************************************************************)
\* the digits alone, without the names
normalizeStatusDigitsOnly(input) ==
  LET raw == toLowerCase(trim(ToStr(IF IsNullish(input) THEN Str(<<>>) ELSE input)))
  IN CASE raw = <<"1">> -> 1
       [] raw = <<"2">> -> 2
       [] raw = <<"3">> -> 3
       [] OTHER -> 0

\* the same without the trim and the lower-casing
normalizeStatusExactText(input) ==
  LET raw == ToStr(IF IsNullish(input) THEN Str(<<>>) ELSE input)
  IN CASE raw = <<"0">> \/ raw = <<"a", "t", "i", "v", "o">> -> 0
       [] raw = <<"1">> \/ raw = <<"a", "t", "e", "n", "d", "i", "m", "e", "n", "t", "o">> -> 1
       [] raw = <<"2">> \/ raw = <<"d", "e", "s", "a", "t", "i", "v", "a", "d", "o">> -> 2
       [] raw = <<"3">> \/ raw = <<"d", "e", "l", "e", "t", "a", "d", "o">> -> 3
       [] OTHER -> 0

\* normalizeStatusToCode
normalizeStatusToCode(input) ==
  LET raw == toLowerCase(trim(ToStr(IF IsNullish(input) THEN Str(<<>>) ELSE input)))
  IN CASE raw = <<"0">> \/ raw = <<"a", "t", "i", "v", "o">> -> 0
       [] raw = <<"1">> \/ raw = <<"a", "t", "e", "n", "d", "i", "m", "e", "n", "t", "o">> -> 1
       [] raw = <<"2">> \/ raw = <<"d", "e", "s", "a", "t", "i", "v", "a", "d", "o">> -> 2
       [] raw = <<"3">> \/ raw = <<"d", "e", "l", "e", "t", "a", "d", "o">> -> 3
       [] OTHER -> 0

\* the missing-field list, in the order of the pushes
FirstMissingOnly(b) ==
  IF IsNullish(b.tipo_id) THEN <<"tipo_id">>
  ELSE IF ~Truthy(b.nome) THEN <<"nome">>
  ELSE IF ~Truthy(b.serialNumber) THEN <<"serialNumber">>
  ELSE IF ~Truthy(b.data_instalacao) THEN <<"data_instalacao">>
  ELSE IF IsNullish(b.status) THEN <<"status">>
  ELSE <<>>
Missing(b) ==
  (IF IsNullish(b.tipo_id) THEN <<"tipo_id">> ELSE <<>>)
  \o (IF ~Truthy(b.nome) THEN <<"nome">> ELSE <<>>)
  \o (IF ~Truthy(b.serialNumber) THEN <<"serialNumber">> ELSE <<>>)
  \o (IF ~Truthy(b.data_instalacao) THEN <<"data_instalacao">> ELSE <<>>)
  \o (IF IsNullish(b.status) THEN <<"status">> ELSE <<>>)

\* Object.keys(body).length: a JSON body holds no undefined
KeyCount(b) == Cardinality({f \in DOMAIN b : b[f] # Undef})

\* (cidade ?? cidade_nome ?? "").toString().trim()
CidadeTexto(b) ==
  trim(ToStr(IF ~IsNullish(b.cidade) THEN b.cidade
             ELSE IF ~IsNullish(b.cidade_nome) THEN b.cidade_nome
             ELSE Str(<<>>)))

\* x || null, for a text
OrNull(s) == IF s = <<>> THEN Null ELSE Str(s)

\* String(uf || "").trim().toUpperCase() || null
UfOfBody(b) == OrNull(toUpperCase(trim(ToStr(IF Truthy(b.uf) THEN b.uf ELSE Str(<<>>)))))

\* the name and the state code handed to ensureCityByName
NomeCidadeOf(b) ==
  LET texto == CidadeTexto(b)
      slash == IndexOf(texto, "/")
  IN IF slash > 0 THEN trim(SubSeq(texto, 1, slash)) ELSE texto

UfFinalOf(b) ==
  LET texto == CidadeTexto(b)
      slash == IndexOf(texto, "/")
      after == toUpperCase(trim(SubSeq(texto, slash + 2, Len(texto))))
  IN IF slash > 0 /\ after # <<>> THEN Str(after) ELSE UfOfBody(b)

\* rows of maquinas whose TRIM(serialNumber) equals TRIM(?)
SameSerial(c, row, serial) ==
  SqlEq(c, SqlTrim(row.serialNumber), SqlTrim(ToStr(serial)))

\* the handler goes on to resolve the city, or straight to its next statement
AfterDups(p, r, nextPc) ==
  IF CidadeTexto(r.body) = <<>>
  THEN /\ req' = [req EXCEPT ![p] = r]
       /\ pc' = [pc EXCEPT ![p] = nextPc]
       /\ resp' = [resp EXCEPT ![p] = NoResp]
  ELSE LET r2 == [r EXCEPT !.nomeCidade = CityNome(Str(NomeCidadeOf(r.body))),
                           !.uf = CityUf(UfFinalOf(r.body))]
       IN /\ req' = [req EXCEPT ![p] = r2]
          /\ pc' = [pc EXCEPT ![p] = IF r2.nomeCidade = <<>> THEN nextPc ELSE "cityExact"]
          /\ resp' = [resp EXCEPT ![p] = NoResp]

\* the handler answers at once
Answer(p, r, status, error, missing) ==
  /\ req' = [req EXCEPT ![p] = r]
  /\ pc' = [pc EXCEPT ![p] = "done"]
  /\ resp' = [resp EXCEPT ![p] =
       [NoResp EXCEPT !.status = status, !.error = error, !.missing = missing]]

\* the same with an absent usuario_id taken as owner 1
AfterWriteOwnerDefaulted(p, id, gelada, quente, apet, okStatus) ==
  LET b == req[p].body
      t == IF b.usuario_id = Null THEN NoTxn
           ELSE ModulesTxn(p, ToNum(IF b.usuario_id = Undef THEN Num(1) ELSE b.usuario_id), Num(id),
                           gelada, quente, apet)
  IN /\ txn' = [txn EXCEPT ![p] = t]
     /\ req' = [req EXCEPT ![p].id = id]
     /\ IF t.st = "none"
        THEN /\ pc' = [pc EXCEPT ![p] = "done"]
             /\ resp' = [resp EXCEPT ![p] =
                  [NoResp EXCEPT !.status = okStatus, !.value = Num(id)]]
        ELSE /\ pc' = [pc EXCEPT ![p] = "awaitModules"]
             /\ UNCHANGED resp

\* after the row is written: reconcile the modules when usuario_id != null
AfterWrite(p, id, gelada, quente, apet, okStatus) ==
  LET b == req[p].body
      t == IF IsNullish(b.usuario_id) THEN NoTxn
           ELSE ModulesTxn(p, ToNum(b.usuario_id), Num(id), gelada, quente, apet)
  IN /\ txn' = [txn EXCEPT ![p] = t]
     /\ req' = [req EXCEPT ![p].id = id]
     /\ IF t.st = "none"
        THEN /\ pc' = [pc EXCEPT ![p] = "done"]
             /\ resp' = [resp EXCEPT ![p] =
                  [NoResp EXCEPT !.status = okStatus, !.value = Num(id)]]
        ELSE /\ pc' = [pc EXCEPT ![p] = "awaitModules"]
             /\ UNCHANGED resp

\* x = 1 as a destructuring default: only undefined takes it
Default(x, d) == IF x = Undef THEN d ELSE x

\* observacao && String(observacao).trim()
HasText(x) == Truthy(x) /\ trim(ToStr(x)) # <<>>

(***************************************************************************)
(* POST /equipamentos                                                      *)
(***************************************************************************)
\* observacaoFinal of the create handler
PostObservacao(b) ==
  LET baseObj == IF HasText(b.observacao) THEN ObjOfText(b.observacao) ELSE EmptyObj
  IN Str(JsonStringify(ObjSet(baseObj, "aspersor",
                              Bool(AspersorOn(Default(b.aspersor, Num(0)))))))

\* validation, then the duplicate-serial SELECT and the code up to the next await
PostEquipamentos(p, body) ==
  /\ pc[p] = "idle"
  /\ LET r == [NoReq EXCEPT !.op = "create", !.body = body]
     IN IF Missing(body) # <<>>
        THEN Answer(p, r, 400, "ValidationError", Missing(body))
        ELSE IF \E i \in 1..Len(maquinas) :
                  /\ SameSerial(collation, maquinas[i], body.serialNumber)
                  /\ maquinas[i].status # 3
        THEN Answer(p, r, 409, "DuplicateSerial", <<>>)
        ELSE AfterDups(p, r, "postInsert")
  /\ UNCHANGED <<collation, cidades, maquinas, usuarios_equipamentos, txn>>

\* the row of INSERT INTO maquinas (...) VALUES (...)
PostRow(p) ==
  LET b == req[p].body
  IN [cidade_id |-> req[p].cidadeId,
      tipo_id |-> ToNum(b.tipo_id),
      nome |-> ToStr(b.nome),
      serialNumber |-> ToStr(b.serialNumber),
      data_instalacao |-> ToStr(b.data_instalacao),
      status |-> normalizeStatusToCode(b.status),
      observacao |-> PostObservacao(b)]

\* INSERT INTO maquinas, then the association when usuario_id != null
PostInsert(p) ==
  /\ pc[p] = "postInsert"
  /\ Len(maquinas) < MaxEquip
  /\ LET b == req[p].body
     IN /\ maquinas' = Append(maquinas, PostRow(p))
        /\ AfterWrite(p, Len(maquinas) + 1, Default(b.agua_gelada, Num(1)),
                      Default(b.agua_quente, Num(1)), Default(b.agua_pet, Num(1)), 201)
  /\ UNCHANGED <<collation, cidades, usuarios_equipamentos>>

(***************************************************************************)
(* PUT /equipamentos/:id                                                   *)
(***************************************************************************)
\* Object.keys(body).length === 1 && typeof status !== "undefined"
OnlyStatusUpdate(b) == KeyCount(b) = 1 /\ b.status # Undef

\* observacaoFinal of the update handler
PutObservacao(curObs, b) ==
  LET cur == IF HasText(curObs) THEN ObjOfText(curObs) ELSE EmptyObj
      withObs == IF b.observacao # Undef /\ HasText(b.observacao)
                 THEN IF ParsesToObject(ToStr(b.observacao))
                      THEN ObjSpread(cur, JsonParseObject(ToStr(b.observacao)))
                      ELSE ObjSet(cur, "texto", Str(ToStr(b.observacao)))
                 ELSE cur
      merged == IF b.aspersor # Undef
                THEN ObjSet(withObs, "aspersor", Bool(AspersorOn(b.aspersor)))
                ELSE withObs
  IN IF merged.m = <<>> THEN Null ELSE Str(JsonStringify(merged))

\* the id check, the status-only UPDATE, or validation and the duplicate SELECT
PutEquipamentos(p, id, body) ==
  /\ pc[p] = "idle"
  /\ LET r == [NoReq EXCEPT !.op = "update", !.id = id, !.body = body]
     IN IF id <= 0
        THEN Answer(p, r, 400, "InvalidId", <<>>) /\ UNCHANGED maquinas
        ELSE IF OnlyStatusUpdate(body)
        THEN IF id \in 1..Len(maquinas)
             THEN /\ maquinas' = [maquinas EXCEPT
                       ![id].status = normalizeStatusToCode(body.status)]
                  /\ Answer(p, r, 200, "", <<>>)
             ELSE Answer(p, r, 404, "NotFound", <<>>) /\ UNCHANGED maquinas
        ELSE IF Missing(body) # <<>>
        THEN Answer(p, r, 400, "ValidationError", Missing(body)) /\ UNCHANGED maquinas
        ELSE IF \E i \in 1..Len(maquinas) :
                  SameSerial(collation, maquinas[i], body.serialNumber) /\ i # id
        THEN Answer(p, r, 409, "DuplicateSerial", <<>>) /\ UNCHANGED maquinas
        ELSE AfterDups(p, r, "putCurObs") /\ UNCHANGED maquinas
  /\ UNCHANGED <<collation, cidades, usuarios_equipamentos, txn>>

\* SELECT observacao FROM maquinas WHERE id = ?
PutCurObs(p) ==
  /\ pc[p] = "putCurObs"
  /\ req' = [req EXCEPT ![p].curObs =
       IF req[p].id \in 1..Len(maquinas) THEN maquinas[req[p].id].observacao ELSE Null]
  /\ pc' = [pc EXCEPT ![p] = "putUpdate"]
  /\ UNCHANGED <<collation, cidades, maquinas, usuarios_equipamentos, resp, txn>>

\* the row after the UPDATE with the stored city kept when none was resolved
PutRowKeepsCity(p) ==
  LET b == req[p].body
  IN [cidade_id |-> IF req[p].cidadeId = Null THEN maquinas[req[p].id].cidade_id
                    ELSE req[p].cidadeId,
      tipo_id |-> ToNum(b.tipo_id),
      nome |-> ToStr(b.nome),
      serialNumber |-> ToStr(b.serialNumber),
      data_instalacao |-> ToStr(b.data_instalacao),
      status |-> normalizeStatusToCode(b.status),
      observacao |-> PutObservacao(req[p].curObs, b)]

\* the row after UPDATE maquinas SET cidade_id = ?, ... WHERE id = ?
PutRow(p) ==
  LET b == req[p].body
  IN [cidade_id |-> req[p].cidadeId,
      tipo_id |-> ToNum(b.tipo_id),
      nome |-> ToStr(b.nome),
      serialNumber |-> ToStr(b.serialNumber),
      data_instalacao |-> ToStr(b.data_instalacao),
      status |-> normalizeStatusToCode(b.status),
      observacao |-> PutObservacao(req[p].curObs, b)]

\* UPDATE maquinas SET ... WHERE id = ?, then the association when usuario_id != null
PutUpdate(p) ==
  /\ pc[p] = "putUpdate"
  /\ LET b == req[p].body
         id == req[p].id
     IN IF id \in 1..Len(maquinas)
        THEN /\ maquinas' = [maquinas EXCEPT ![id] = PutRow(p)]
             /\ AfterWrite(p, id, b.agua_gelada, b.agua_quente, b.agua_pet, 200)
        ELSE /\ Answer(p, req[p], 404, "NotFound", <<>>)
             /\ UNCHANGED <<maquinas, txn>>
  /\ UNCHANGED <<collation, cidades, usuarios_equipamentos>>

(***************************************************************************)
(* DELETE /equipamentos/:id                                                *)
(***************************************************************************)
\* the same with the deactivation removing the association at once
DeleteEquipamentosUnlinks(p, id, hard) ==
  /\ pc[p] = "idle"
  /\ LET r == [NoReq EXCEPT !.op = "delete", !.id = id, !.hard = hard]
     IN IF id = 0
        THEN Answer(p, r, 400, "InvalidId", <<>>) /\ UNCHANGED <<maquinas, usuarios_equipamentos>>
        ELSE IF id \notin 1..Len(maquinas)
        THEN Answer(p, r, 404, "NotFound", <<>>) /\ UNCHANGED <<maquinas, usuarios_equipamentos>>
        ELSE /\ maquinas' = [maquinas EXCEPT ![id].status = IF hard THEN 3 ELSE 2]
             /\ IF hard
                THEN /\ req' = [req EXCEPT ![p] = r]
                     /\ pc' = [pc EXCEPT ![p] = "delAssoc"]
                     /\ resp' = [resp EXCEPT ![p] = NoResp]
                     /\ UNCHANGED usuarios_equipamentos
                ELSE /\ Answer(p, r, 200, "", <<>>)
                     /\ usuarios_equipamentos' =
                          usuarios_equipamentos (-) RowsOf(usuarios_equipamentos, id)
  /\ UNCHANGED <<collation, cidades, txn>>

\* the id check and the UPDATE of status: 3 when hard=1, else 2
DeleteEquipamentos(p, id, hard) ==
  /\ pc[p] = "idle"
  /\ LET r == [NoReq EXCEPT !.op = "delete", !.id = id, !.hard = hard]
     IN IF id = 0
        THEN Answer(p, r, 400, "InvalidId", <<>>) /\ UNCHANGED maquinas
        ELSE IF id \notin 1..Len(maquinas)
        THEN Answer(p, r, 404, "NotFound", <<>>) /\ UNCHANGED maquinas
        ELSE /\ maquinas' = [maquinas EXCEPT ![id].status = IF hard THEN 3 ELSE 2]
             /\ IF hard
                THEN /\ req' = [req EXCEPT ![p] = r]
                     /\ pc' = [pc EXCEPT ![p] = "delAssoc"]
                     /\ resp' = [resp EXCEPT ![p] = NoResp]
                ELSE Answer(p, r, 200, "", <<>>)
  /\ UNCHANGED <<collation, cidades, usuarios_equipamentos, txn>>

\* the answer without the DELETE of the association
DelAssocSkipped(p) ==
  /\ pc[p] = "delAssoc"
  /\ pc' = [pc EXCEPT ![p] = "done"]
  /\ resp' = [resp EXCEPT ![p] = [NoResp EXCEPT !.status = 200]]
  /\ UNCHANGED <<collation, cidades, maquinas, usuarios_equipamentos, req, txn>>

\* DELETE FROM usuarios_equipamentos WHERE maquina_id = ?, outside any transaction
DelAssoc(p) ==
  /\ pc[p] = "delAssoc"
  /\ LockFree(p, req[p].id)
  /\ usuarios_equipamentos' =
       usuarios_equipamentos (-) RowsOf(usuarios_equipamentos, req[p].id)
  /\ pc' = [pc EXCEPT ![p] = "done"]
  /\ resp' = [resp EXCEPT ![p] = [NoResp EXCEPT !.status = 200]]
  /\ UNCHANGED <<collation, cidades, maquinas, req, txn>>

(***************************************************************************)
(* withTimeout: the timer of an awaited store access fires first.  The     *)
(* statement is not cancelled: a write it carries may or may not reach the *)
(* store, and a reconciliation goes on without its caller.                 *)
(***************************************************************************)
\* the outer catch of the handlers: 504 when the message includes "db_timeout"
CatchStatus(msg) == IF msg = "db_timeout" THEN 504 ELSE 500

\* the error text of the outer catch
CatchError(msg) == IF msg = "db_timeout" THEN "MySQL timeout" ELSE msg

\* POST /equipamentos: the duplicate-serial SELECT times out
PostDupsTimeout(p, body) ==
  /\ pc[p] = "idle"
  /\ Missing(body) = <<>>
  /\ Answer(p, [NoReq EXCEPT !.op = "create", !.body = body],
            CatchStatus("db_timeout"), CatchError("db_timeout"), <<>>)
  /\ UNCHANGED <<collation, cidades, maquinas, usuarios_equipamentos, txn>>

\* PUT /equipamentos/:id: the status-only UPDATE or the duplicate-serial
\* SELECT times out
PutFirstTimeout(p, id, body) ==
  /\ pc[p] = "idle"
  /\ id > 0
  /\ OnlyStatusUpdate(body) \/ Missing(body) = <<>>
  /\ maquinas' \in {maquinas} \cup
       (IF OnlyStatusUpdate(body) /\ id \in 1..Len(maquinas)
        THEN {[maquinas EXCEPT ![id].status = normalizeStatusToCode(body.status)]}
        ELSE {})
  /\ Answer(p, [NoReq EXCEPT !.op = "update", !.id = id, !.body = body],
            CatchStatus("db_timeout"), CatchError("db_timeout"), <<>>)
  /\ UNCHANGED <<collation, cidades, usuarios_equipamentos, txn>>

\* a query of ensureCityByName times out: it throws Error("db_timeout"), which
\* the handlers catch around the call
CityTimeout(p) ==
  /\ pc[p] \in {"cityExact", "cityPrefix", "cityInsert"}
  /\ cidades' \in {cidades} \cup
       (IF pc[p] = "cityInsert" /\ Len(cidades) < MaxCities
        THEN {Append(cidades, [nome |-> req[p].nomeCidade, uf |-> req[p].uf])}
        ELSE {})
  /\ CityThrow(p, "db_timeout")
  /\ UNCHANGED <<collation, maquinas, usuarios_equipamentos, txn>>

\* the same with the reconciliation dropped where it stands
HandlerTimeoutCancels(p) ==
  /\ pc[p] \in {"postInsert", "putCurObs", "putUpdate", "awaitModules"}
  /\ req[p].op \in {"create", "update"}
  /\ maquinas' \in {maquinas} \cup
       (IF pc[p] = "postInsert" /\ Len(maquinas) < MaxEquip
        THEN {Append(maquinas, PostRow(p))}
        ELSE IF pc[p] = "putUpdate" /\ req[p].id \in 1..Len(maquinas)
        THEN {[maquinas EXCEPT ![req[p].id] = PutRow(p)]}
        ELSE {})
  /\ Answer(p, req[p], CatchStatus("db_timeout"), CatchError("db_timeout"), <<>>)
  /\ txn' = [txn EXCEPT ![p] = NoTxn]
  /\ UNCHANGED <<collation, cidades, usuarios_equipamentos>>

\* the INSERT, the SELECT observacao, the UPDATE or the reconciliation of a
\* create or an update times out
HandlerTimeout(p) ==
  /\ pc[p] \in {"postInsert", "putCurObs", "putUpdate", "awaitModules"}
  /\ req[p].op \in {"create", "update"}
  /\ maquinas' \in {maquinas} \cup
       (IF pc[p] = "postInsert" /\ Len(maquinas) < MaxEquip
        THEN {Append(maquinas, PostRow(p))}
        ELSE IF pc[p] = "putUpdate" /\ req[p].id \in 1..Len(maquinas)
        THEN {[maquinas EXCEPT ![req[p].id] = PutRow(p)]}
        ELSE {})
  /\ Answer(p, req[p], CatchStatus("db_timeout"), CatchError("db_timeout"), <<>>)
  /\ UNCHANGED <<collation, cidades, usuarios_equipamentos, txn>>

\* a reconciliation whose caller timed out ends: nobody takes its result
TxnSettle(p) ==
  /\ pc[p] # "awaitModules"
  /\ txn[p].st \in {"committed", "failed"}
  /\ txn' = [txn EXCEPT ![p] = NoTxn]
  /\ UNCHANGED <<collation, cidades, maquinas, usuarios_equipamentos, pc, req, resp>>

(***************************************************************************)
(* GET /equipamentos                                                       *)
(***************************************************************************)
\* the ids the listing returns: FROM maquinas m LEFT JOIN cidades c
\* WHERE m.status <> 3 (every page taken together)
ListEquipamentos(tbl) == {i \in 1..Len(tbl) : tbl[i].status # 3}

(***************************************************************************)
(* The equipment lifecycle, two requests in flight                         *)
(***************************************************************************)
FullBody(serial, owner) ==
  [NoBody EXCEPT !.tipo_id = Num(1), !.nome = Str(<<"n">>), !.serialNumber = serial,
                 !.data_instalacao = Str(<<"d">>), !.status = Num(0),
                 !.usuario_id = owner]

CreateBodies == {FullBody(Str(<<"A">>), Num(1))}
UpdateBodies == {FullBody(Str(<<"A", " ">>), Num(2)), [NoBody EXCEPT !.status = Num(0)]}
LifeIds == {1}
LifeOwnerInputs == {Num(2)}
LifeEquipInputs == {Num(1)}

Next ==
  \E p \in Procs :
    \/ \E b \in CreateBodies : PostEquipamentos(p, b)
    \/ PostInsert(p)
    \/ \E id \in LifeIds, b \in UpdateBodies : PutEquipamentos(p, id, b)
    \/ PutCurObs(p)
    \/ PutUpdate(p)
    \/ \E id \in LifeIds, hard \in BOOLEAN : DeleteEquipamentos(p, id, hard)
    \/ DelAssoc(p)
    \/ \E u \in LifeOwnerInputs, m \in LifeEquipInputs, f \in ConcFlagInputs :
         ReplaceModules(p, u, m, f)
    \/ TxnSteps(p)
    \/ Return(p)

Spec == Init /\ [][Next]_vars

(***************************************************************************)
(* The handlers, one request at a time, over every way a body can lack     *)
(* its required fields                                                     *)
(***************************************************************************)
ValidationBodies ==
  {[NoBody EXCEPT !.tipo_id = t, !.nome = n, !.serialNumber = s,
                  !.data_instalacao = d, !.status = st] :
     t \in {Num(1), Undef, Null},
     n \in {Str(<<"n">>), Undef, Str(<<>>)},
     s \in {Str(<<"A">>), Undef, Str(<<>>)},
     d \in {Str(<<"d">>), Undef, Str(<<>>)},
     st \in {Num(0), Undef, Null}}

CityBodies ==
  {[FullBody(Str(<<"A">>), o) EXCEPT !.cidade = c] :
     o \in {Undef, Num(1)},
     c \in {Str(<<"s", "a", "o", "/", "s", "p">>), Str(<<"s", "a", "o">>)}}

HandlerBodies == ValidationBodies \cup CityBodies
HandlerIds == 0..(MaxEquip + 1)

NextHandlers ==
  \E p \in Caller :
    \/ \E b \in HandlerBodies : PostEquipamentos(p, b)
    \/ PostInsert(p)
    \/ \E id \in HandlerIds, b \in HandlerBodies : PutEquipamentos(p, id, b)
    \/ PutCurObs(p)
    \/ PutUpdate(p)
    \/ \E id \in HandlerIds, hard \in BOOLEAN : DeleteEquipamentos(p, id, hard)
    \/ DelAssoc(p)
    \/ CityExact(p)
    \/ CityPrefix(p)
    \/ CityInsert(p)
    \/ TxnSteps(p)
    \/ Return(p)

SpecHandlers == Init /\ [][NextHandlers]_vars

(***************************************************************************)
(* City resolution: properties (SpecCity: calls one after the other)       *)
(***************************************************************************)
ResolveDone(p) == pc[p] = "done" /\ req[p].op = "resolve"

\* the rows that were in cidades before the call of task p (in SpecCity no
\* other task runs, so these are all rows but the one the call inserted)
RowsBefore(p) == 1..(IF resp[p].tier = 3 THEN Len(cidades) - 1 ELSE Len(cidades))

\* the rows holding exactly the name and state the call of task p asked for
ExactRows(p) ==
  {i \in 1..Len(cidades) :
     cidades[i].nome = req[p].nomeCidade /\ cidades[i].uf = req[p].uf}

\* C6: once a row N/U exists, a call whose name equals N after normalizeName
\* and whose state equals U ignoring case and blanks returns that row's id
\* and inserts nothing.
C6_NormalizedNameResolvesToExistingRow ==
  \A p \in Procs :
    ResolveDone(p) /\ Truthy(req[p].uf) =>
      \A i \in RowsBefore(p) :
        ( /\ normalizeName(cidades[i].nome) = normalizeName(req[p].nomeCidade)
          /\ cidades[i].uf.t = "string"
          /\ toUpperCase(trim(cidades[i].uf.v)) = req[p].uf.v )
        => resp[p].error = "" /\ resp[p].tier # 3 /\ resp[p].value = Num(i)

\* C7: a call with a state code for a name that matches nothing inserts one
\* row and returns its id; every later call with that name and state returns
\* the same id, and the rows holding that name and state stay exactly one.
C7_CreatedOnceThenSameId ==
  \A p \in Procs :
    ResolveDone(p) /\ Truthy(req[p].uf) /\ (ExactRows(p) # {} \/ resp[p].tier = 3) =>
      /\ resp[p].error = ""
      /\ resp[p].value.t = "number"
      /\ ExactRows(p) = {resp[p].value.v}
      /\ (resp[p].tier = 3 => resp[p].value.v = Len(cidades))

C7_Witness ==
  \E p \in Procs :
    /\ ResolveDone(p) /\ Truthy(req[p].uf)
    /\ resp[p].tier = 1 /\ resp[p].error = ""
    /\ ExactRows(p) = {resp[p].value.v}

\* C8: without a state code a call never inserts a city, and when neither
\* tier matches it fails with CityCreationRequiresState (answered 400).
C8_NoStateCodeNeverCreates ==
  [][\A p \in Procs :
       ( /\ ~Truthy(req[p].uf)
         /\ pc[p] \in {"cityExact", "cityPrefix", "cityInsert"}
         /\ pc'[p] # pc[p] )
       => /\ cidades' = cidades
          /\ ( ( /\ pc[p] = "cityPrefix"
                 /\ Tier2Filtered(cidades,
                      Tier2Rows(collation, cidades, req[p].nomeCidade, req[p].uf),
                      req[p].nomeCidade) = {} )
               => /\ pc'[p] = "done"
                  /\ resp'[p].error = "CityCreationRequiresState"
                  /\ resp'[p].status \in {0, 400} )]_vars

C8_Witness ==
  \E p \in Procs :
    /\ ResolveDone(p) /\ ~Truthy(req[p].uf)
    /\ resp[p].error = "CityCreationRequiresState"
    /\ Len(cidades) > 0

\* C9: with two rows of the same name and different state codes, a call
\* without a state code fails with AmbiguousCity and creates nothing; a call
\* with the state code of one of them returns the id of that row.
C9_SameNameTwoStates ==
  \A p \in Procs :
    LET same == {i \in 1..Len(cidades) : cidades[i].nome = req[p].nomeCidade}
    IN ( /\ ResolveDone(p)
         /\ \E i, j \in same : cidades[i].uf # cidades[j].uf )
       => /\ ~Truthy(req[p].uf) => resp[p].error = "AmbiguousCity" /\ resp[p].tier # 3
          /\ Truthy(req[p].uf) /\ (\E i \in same : cidades[i].uf = req[p].uf) =>
               /\ resp[p].error = ""
               /\ resp[p].value.t = "number"
               /\ resp[p].value.v \in same
               /\ cidades[resp[p].value.v].uf = req[p].uf

C9_Witness ==
  \E p \in Procs :
    /\ ResolveDone(p) /\ ~Truthy(req[p].uf)
    /\ resp[p].error = "AmbiguousCity"
    /\ \E i, j \in 1..Len(cidades) :
         /\ cidades[i].nome = req[p].nomeCidade /\ cidades[j].nome = req[p].nomeCidade
         /\ cidades[i].uf # cidades[j].uf

(***************************************************************************)
(* Module reconciliation: properties                                       *)
(***************************************************************************)
\* the association row a call with the body b asks for
RowAsked(b) ==
  [usuario_id |-> ToNum(b.usuario_id).v, maquina_id |-> ToNum(b.maquina_id).v,
   agua_gelada |-> IF Truthy(b.agua_gelada) THEN 1 ELSE 0,
   agua_quente |-> IF Truthy(b.agua_quente) THEN 1 ELSE 0,
   agua_pet |-> IF Truthy(b.agua_pet) THEN 1 ELSE 0]

\* a direct call of task p with two non-zero ids has returned normally
ReplaceDone(p) ==
  /\ pc[p] = "done" /\ req[p].op = "replace" /\ resp[p].error = ""
  /\ Truthy(ToNum(req[p].body.usuario_id))
  /\ Truthy(ToNum(req[p].body.maquina_id))

\* the number of association rows of equipment mid
RowCount(mid) == BagCardinality(RowsOf(usuarios_equipamentos, mid))

C3_SequentialLastCallWins ==
  \A p \in Procs :
    ReplaceDone(p) =>
      RowsOf(usuarios_equipamentos, ToNum(req[p].body.maquina_id).v)
        = SetToBag({RowAsked(req[p].body)})

C3_Witness ==
  \E p \in Procs :
    /\ ReplaceDone(p)
    /\ req[p].body.agua_gelada = Bool(FALSE)
    /\ req[p].body.usuario_id = Num(2)
    /\ RowCount(ToNum(req[p].body.maquina_id).v) = 1
    /\ \E r \in BagToSet(usuarios_equipamentos) :
         r.maquina_id # ToNum(req[p].body.maquina_id).v

\* C4: when a statement of replaceModules fails, the transaction is rolled
\* back and the failure reaches the caller; the association rows of the
\* equipment are what they were before the call, and the state between the
\* delete and the insert is never in the committed table.
C4_FailureRollsBack ==
  [][\A p \in Procs :
       /\ ( txn'[p] # txn[p] /\ txn'[p].st \in {"deleted", "inserted", "rollback", "failed"} )
            => usuarios_equipamentos' = usuarios_equipamentos
       /\ txn'[p].lock
            => RowsOf(usuarios_equipamentos', txn'[p].mid) = txn'[p].del
       /\ ( txn[p].st = "failed" /\ txn'[p].st = "none" )
            => pc'[p] = "done" /\ resp'[p].error = "StoreError"
       /\ ( txn[p].st = "rollback" /\ txn'[p] # txn[p] )
            => txn'[p].st = "failed" /\ ~txn'[p].lock]_vars

C4_Witness ==
  \E p \in Procs :
    /\ pc[p] = "done" /\ req[p].op = "replace" /\ resp[p].error = "StoreError"
    /\ RowCount(ToNum(req[p].body.maquina_id).v) = 1
    /\ \E r \in BagToSet(usuarios_equipamentos) :
         /\ r.maquina_id = ToNum(req[p].body.maquina_id).v
         /\ r.usuario_id # ToNum(req[p].body.usuario_id).v

C1_LiveSerialsUnique ==
  \A i, j \in 1..Len(maquinas) :
    ( i # j /\ maquinas[i].status # 3 /\ maquinas[j].status # 3 )
      => trim(maquinas[i].serialNumber) # trim(maquinas[j].serialNumber)

RequiredFields == {"tipo_id", "nome", "serialNumber", "data_instalacao", "status"}

\* the field is missing: null or undefined for tipo_id and status, absent or
\* empty for the others
FieldMissing(b, f) ==
  IF f \in {"tipo_id", "status"} THEN b[f] \in {Undef, Null}
  ELSE b[f] \in {Undef, Str(<<>>)}

\* the only key of the body is status
StatusOnly(b) == \A f \in DOMAIN b : (b[f] # Undef) <=> (f = "status")

\* C10: a create, or an update with a valid id whose body is not status-only,
\* that lacks a required field is answered at once with ValidationError (400)
\* naming every missing field, and leaves the three tables as they were.
C10_MissingFieldsRejected ==
  [][\A p \in Procs :
       ( /\ pc[p] = "idle" /\ pc'[p] # "idle"
         /\ req'[p].op \in {"create", "update"}
         /\ req'[p].op = "update" => req'[p].id > 0 /\ ~StatusOnly(req'[p].body)
         /\ \E f \in RequiredFields : FieldMissing(req'[p].body, f) )
       => /\ pc'[p] = "done"
          /\ resp'[p].status = 400
          /\ resp'[p].error = "ValidationError"
          /\ \A f \in RequiredFields :
               FieldMissing(req'[p].body, f)
                 => \E i \in 1..Len(resp'[p].missing) : resp'[p].missing[i] = f
          /\ cidades' = cidades
          /\ maquinas' = maquinas
          /\ usuarios_equipamentos' = usuarios_equipamentos]_vars

C10_Witness ==
  \E p \in Procs :
    /\ pc[p] = "done" /\ req[p].op = "update"
    /\ req[p].id \in 1..Len(maquinas)
    /\ resp[p].error = "ValidationError"
    /\ Len(resp[p].missing) >= 2
    /\ FieldMissing(req[p].body, "status") /\ FieldMissing(req[p].body, "nome")
    /\ usuarios_equipamentos # EmptyBag

(***************************************************************************)
(* Creates whose serial numbers differ in case and surrounding blanks,     *)
(* one request at a time                                                   *)
(***************************************************************************)
SerialInputs == {Str(<<"A">>), Str(<<"a">>), Str(<<" ", "A", " ">>)}
SerialBodies == {FullBody(s, Undef) : s \in SerialInputs}

NextSerial ==
  \E p \in Caller :
    \/ \E b \in SerialBodies : PostEquipamentos(p, b)
    \/ PostInsert(p)
    \/ \E id \in LifeIds, hard \in BOOLEAN : DeleteEquipamentos(p, id, hard)
    \/ DelAssoc(p)
    \/ Return(p)

SpecSerial == Init /\ [][NextSerial]_vars

\* the two serial numbers are equal ignoring case and surrounding whitespace
SameIgnoringCase(a, b) == toLowerCase(trim(a)) = toLowerCase(trim(b))

\* C11: while a row that is not Deleted holds serial S, a create whose serial
\* equals S ignoring case and surrounding whitespace is answered
\* DuplicateSerial (409) and inserts no equipment row.
C11_CreateRejectsHeldSerial ==
  [][\A p \in Procs :
       ( /\ pc[p] = "idle" /\ pc'[p] # "idle"
         /\ req'[p].op = "create"
         /\ \A f \in RequiredFields : ~FieldMissing(req'[p].body, f)
         /\ \E i \in 1..Len(maquinas) :
              /\ maquinas[i].status # 3
              /\ SameIgnoringCase(maquinas[i].serialNumber,
                                  ToStr(req'[p].body.serialNumber)) )
       => /\ pc'[p] = "done"
          /\ resp'[p].error = "DuplicateSerial"
          /\ resp'[p].status = 409
          /\ maquinas' = maquinas]_vars

(***************************************************************************)
(* Creates, updates and deletes with and without an owner, one request at  *)
(* a time                                                                  *)
(***************************************************************************)
UpdOwnerInputs == {Undef, Null, Num(0), Num(2)}
UpdCreateBodies == {FullBody(Str(<<"A">>), o) : o \in {Undef, Num(1)}}
UpdFullBodies == {FullBody(s, o) : s \in {Str(<<"A">>), Str(<<"B">>)}, o \in UpdOwnerInputs}
UpdStatusBodies ==
  {[NoBody EXCEPT !.status = st] :
     st \in {Str(<<"a", "t", "e", "n", "d", "i", "m", "e", "n", "t", "o">>), Null}}
UpdIds == 1..(MaxEquip + 1)

NextUpdate ==
  \E p \in Caller :
    \/ \E b \in UpdCreateBodies : PostEquipamentos(p, b)
    \/ PostInsert(p)
    \/ \E id \in UpdIds, b \in UpdFullBodies \cup UpdStatusBodies : PutEquipamentos(p, id, b)
    \/ PutCurObs(p)
    \/ PutUpdate(p)
    \/ \E id \in UpdIds, hard \in BOOLEAN : DeleteEquipamentos(p, id, hard)
    \/ DelAssoc(p)
    \/ TxnSteps(p)
    \/ Return(p)

SpecUpdate == Init /\ [][NextUpdate]_vars

(***************************************************************************)
(* Creates and updates that name a city, one request at a time             *)
(***************************************************************************)
CityCreateBodies ==
  {[FullBody(Str(<<"A">>), Undef) EXCEPT !.cidade = c] :
     c \in {Undef, Str(<<"s", "a", "o", "/", "s", "p">>)}}
CityUpdateBodies ==
  {[FullBody(s, Undef) EXCEPT !.cidade = c] :
     s \in {Str(<<"A">>), Str(<<"B">>)},
     c \in {Str(<<"s", "a", "o", "/", "r", "j">>), Str(<<"s", "a", "o">>)}}

NextCityLife ==
  \E p \in Caller :
    \/ \E b \in CityCreateBodies : PostEquipamentos(p, b)
    \/ PostInsert(p)
    \/ \E id \in UpdIds, b \in CityUpdateBodies \cup UpdStatusBodies : PutEquipamentos(p, id, b)
    \/ PutCurObs(p)
    \/ PutUpdate(p)
    \/ \E id \in UpdIds : DeleteEquipamentos(p, id, TRUE)
    \/ DelAssoc(p)
    \/ CityExact(p)
    \/ CityPrefix(p)
    \/ CityInsert(p)
    \/ Return(p)

SpecCityLife == Init /\ [][NextCityLife]_vars

(***************************************************************************)
(* Equipment lifecycle: properties of single requests                      *)
(***************************************************************************)
\* task p starts a create, or a full update with a valid id, whose body has
\* every required field
StartsWrite(p) ==
  /\ pc[p] = "idle" /\ pc'[p] # "idle"
  /\ \/ req'[p].op = "create"
     \/ req'[p].op = "update" /\ req'[p].id > 0 /\ ~StatusOnly(req'[p].body)
  /\ \A f \in RequiredFields : ~FieldMissing(req'[p].body, f)

\* some row other than the one being updated, not Deleted, holds the serial
\* of the request task p starts
SerialConflict(p) ==
  \E i \in 1..Len(maquinas) :
    /\ req'[p].op = "update" => i # req'[p].id
    /\ maquinas[i].status # 3
    /\ trim(maquinas[i].serialNumber) = trim(ToStr(req'[p].body.serialNumber))

\* C12: a create or a full update is answered DuplicateSerial if and only if
\* a row other than the one being updated, whose status is not Deleted, holds
\* the same serial number.
C12_DuplicateSerialExactly ==
  [][\A p \in Procs :
       StartsWrite(p) =>
         ( (pc'[p] = "done" /\ resp'[p].error = "DuplicateSerial") <=> SerialConflict(p) )]_vars

C14_StatusOnlyUpdate ==
  [][\A p \in Procs :
       ( /\ pc[p] = "idle" /\ req'[p].op = "update"
         /\ StatusOnly(req'[p].body)
         /\ req'[p].id \in 1..Len(maquinas) )
       => /\ pc'[p] = "done" /\ resp'[p].status = 200
          /\ maquinas' = [maquinas EXCEPT
               ![req'[p].id].status = normalizeStatusToCode(req'[p].body.status)]
          /\ req'[p].body.status = Str(<<"a", "t", "e", "n", "d", "i", "m", "e", "n", "t", "o">>)
               => maquinas'[req'[p].id].status = 1
          /\ cidades' = cidades
          /\ usuarios_equipamentos' = usuarios_equipamentos]_vars

C14_Witness ==
  \E p \in Procs :
    /\ pc[p] = "done" /\ req[p].op = "update" /\ StatusOnly(req[p].body)
    /\ req[p].body.status = Str(<<"a", "t", "e", "n", "d", "i", "m", "e", "n", "t", "o">>)
    /\ resp[p].status = 200
    /\ maquinas[req[p].id].status = 1
    /\ maquinas[req[p].id].serialNumber = <<"B">>
    /\ BagCardinality(RowsOf(usuarios_equipamentos, req[p].id)) = 1

\* task p has answered a full update with success
FullUpdateDone(p) ==
  /\ pc[p] = "done" /\ req[p].op = "update" /\ resp[p].status = 200
  /\ ~StatusOnly(req[p].body)

\* C15: after a successful full update whose body has usuario_id null or 0,
\* the equipment has no association row.
C15_NullOwnerClearsAssociation ==
  \A p \in Procs :
    ( FullUpdateDone(p) /\ req[p].body.usuario_id \in {Null, Num(0)} )
      => BagCardinality(RowsOf(usuarios_equipamentos, req[p].id)) = 0

\* C16: no step taken while an update whose body has no usuario_id key is
\* handled (its statements and any reconciliation) changes the association
\* table, so a successful full update without the key leaves the
\* equipment's association row as it was.
C16_AbsentOwnerKeepsAssociation ==
  [][\A p \in Procs :
       ( /\ req'[p].op = "update"
         /\ req'[p].body.usuario_id = Undef )
       => usuarios_equipamentos' = usuarios_equipamentos]_vars

C16_Witness ==
  \E p \in Procs :
    /\ FullUpdateDone(p) /\ req[p].body.usuario_id = Undef
    /\ req[p].body.serialNumber = Str(<<"B">>)
    /\ maquinas[req[p].id].serialNumber = <<"B">>
    /\ \E r \in BagToSet(usuarios_equipamentos) :
         r.maquina_id = req[p].id /\ r.usuario_id = 1

\* C19: once the status of an equipment is Deleted (3), no request changes it
\* to another value.
C19_DeletedIsTerminal ==
  [][\A i \in 1..Len(maquinas) :
       maquinas[i].status = 3 => maquinas'[i].status = 3]_vars

\* the three tables are the same before and after the step
TablesUnchanged ==
  /\ cidades' = cidades
  /\ maquinas' = maquinas
  /\ usuarios_equipamentos' = usuarios_equipamentos

\* the errors a create or an update answers before it writes
RefusalErrors == {"DuplicateSerial", "AmbiguousCity", "CityCreationRequiresState"}

\* C17: no step of an update whose id (a positive integer) matches no row
\* changes the city, equipment or association table, and the update, unless
\* refused earlier for its body, is answered NotFound.
C17_UnknownIdUpdateChangesNothing ==
  [][\A p \in Procs :
       ( /\ pc'[p] # pc[p]
         /\ req'[p].op = "update"
         /\ req'[p].id > 0
         /\ req'[p].id \notin 1..Len(maquinas) )
       => /\ TablesUnchanged
          /\ ( pc'[p] = "done"
               /\ resp'[p].error \notin RefusalErrors \cup {"ValidationError"} )
             => (resp'[p].status = 404 /\ resp'[p].error = "NotFound")]_vars

\* C18: a create or an update answered DuplicateSerial, AmbiguousCity or
\* CityCreationRequiresState has changed no table: the answer comes from the
\* first step or from one of the two city SELECTs, these steps change no
\* table, and the city SELECTs are reached only through such steps.
C18_RefusedRequestChangesNothing ==
  [][\A p \in Procs :
       /\ ( /\ pc'[p] = "done" /\ pc[p] # "done"
            /\ req'[p].op \in {"create", "update"}
            /\ resp'[p].error \in RefusalErrors )
          => (pc[p] \in {"idle", "cityExact", "cityPrefix"} /\ TablesUnchanged)
       /\ ( /\ pc'[p] \in {"cityExact", "cityPrefix"} /\ pc'[p] # pc[p]
            /\ req'[p].op \in {"create", "update"} )
          => (pc[p] \in {"idle", "cityExact"} /\ TablesUnchanged)]_vars

C18_Witness ==
  \E p \in Procs :
    /\ pc[p] = "done" /\ req[p].op = "update"
    /\ resp[p].error = "AmbiguousCity" /\ resp[p].status = 409
    /\ req[p].id \in 1..Len(maquinas)
    /\ Len(cidades) = 2

(***************************************************************************)
(* Creates and updates whose store accesses may time out, one request at a *)
(* time                                                                    *)
(***************************************************************************)
TimeoutCreateBodies ==
  {FullBody(Str(<<"A">>), Undef),
   [FullBody(Str(<<"A">>), Num(1)) EXCEPT !.cidade = Str(<<"s", "a", "o", "/", "s", "p">>)]}
TimeoutUpdateBodies ==
  {[FullBody(Str(<<"B">>), Num(2)) EXCEPT !.cidade = Str(<<"s", "a", "o", "/", "r", "j">>)],
   [NoBody EXCEPT !.status = Str(<<"1">>)]}
TimeoutIds == 1..MaxEquip

NextTimeout ==
  \E p \in Caller :
    \/ \E b \in TimeoutCreateBodies : PostEquipamentos(p, b)
    \/ \E b \in TimeoutCreateBodies : PostDupsTimeout(p, b)
    \/ PostInsert(p)
    \/ \E id \in TimeoutIds, b \in TimeoutUpdateBodies : PutEquipamentos(p, id, b)
    \/ \E id \in TimeoutIds, b \in TimeoutUpdateBodies : PutFirstTimeout(p, id, b)
    \/ PutCurObs(p)
    \/ PutUpdate(p)
    \/ CityExact(p)
    \/ CityPrefix(p)
    \/ CityInsert(p)
    \/ CityTimeout(p)
    \/ HandlerTimeout(p)
    \/ TxnSteps(p)
    \/ TxnSettle(p)
    \/ Return(p)

SpecTimeout == Init /\ [][NextTimeout]_vars

\* the response of task p reports a store timeout
TimedOut(p) ==
  /\ pc[p] = "done"
  /\ req[p].op \in {"create", "update"}
  /\ resp[p].error \in {"db_timeout", "MySQL timeout"}

\* C20: a create or an update one of whose store accesses timed out (the
\* serial check, a city query, the INSERT or UPDATE, the reconciliation) is
\* answered 504.
C20_TimeoutAnswered504 ==
  \A p \in Procs : TimedOut(p) => resp[p].status = 504

(***************************************************************************)
(* Module reconciliation: the call with an absent or zero id               *)
(***************************************************************************)
\* Number(usuario_id) or Number(maquina_id) of the body b is 0 or NaN
ZeroId(b) == ~Truthy(ToNum(b.usuario_id)) \/ ~Truthy(ToNum(b.maquina_id))

\* C21: a replaceModules call whose owner id or equipment id is absent or
\* coerces to 0 returns at once without error, with no connection asked for
\* and no transaction begun, and leaves the association table as it was.
C21_ZeroIdIsNoOp ==
  [][\A p \in Procs :
       ( pc[p] = "idle" /\ req'[p].op = "replace" /\ ZeroId(req'[p].body) )
       => /\ pc'[p] = "done"
          /\ resp'[p].error = ""
          /\ txn'[p] = NoTxn
          /\ usuarios_equipamentos' = usuarios_equipamentos]_vars

C21_Witness ==
  \E p \in Procs :
    /\ pc[p] = "done" /\ req[p].op = "replace"
    /\ req[p].body.usuario_id = Num(1) /\ req[p].body.maquina_id = Null
    /\ resp[p].error = "" /\ txn[p] = NoTxn
    /\ usuarios_equipamentos # EmptyBag

(***************************************************************************)
(* Creates and updates that carry an observation and a sprinkler flag, one *)
(* request at a time                                                       *)
(***************************************************************************)
ObsCreateBodies ==
  {[FullBody(Str(<<"A">>), Undef) EXCEPT !.observacao = o, !.aspersor = a] :
     o \in {Undef, Str(<<"x">>), Str(<<"{", "k", "1", "}">>), Str(<<"[", "1", "]">>)},
     a \in {Undef, Bool(FALSE), Num(1)}}
ObsUpdateBodies ==
  {[FullBody(Str(<<"A">>), Undef) EXCEPT !.observacao = o, !.aspersor = a] :
     o \in {Undef, Str(<<>>), Str(<<"y">>),
            Str(<<"{", "k", "2", "j", Quote, "z", Quote, "}">>)},
     a \in {Undef, Bool(FALSE), Num(1)}}

NextObs ==
  \E p \in Caller :
    \/ \E b \in ObsCreateBodies : PostEquipamentos(p, b)
    \/ PostInsert(p)
    \/ \E id \in 1..MaxEquip, b \in ObsUpdateBodies : PutEquipamentos(p, id, b)
    \/ PutCurObs(p)
    \/ PutUpdate(p)
    \/ Return(p)

SpecObs == Init /\ [][NextObs]_vars

\* the object a reader of the observacao column x gets
BlobObj(x) == IF HasText(x) THEN ObjOfText(x) ELSE EmptyObj

\* the keys of an object and the value of one of them
ObjKeys(o) == {o.m[i].k : i \in 1..Len(o.m)}
ObjGet(o, k) ==
  IF k \in ObjKeys(o) THEN o.m[CHOOSE i \in 1..Len(o.m) : o.m[i].k = k].v ELSE Undef

\* the fields the payload b supplies for the blob
PayloadFields(b) ==
  LET obs == BlobObj(b.observacao)
  IN IF b.aspersor # Undef THEN ObjSet(obs, "aspersor", Bool(AspersorOn(b.aspersor)))
     ELSE obs

\* C22: the UPDATE of a full update on an existing equipment stores a blob in
\* which every field the payload supplies (its observation, its sprinkler
\* flag) has the payload's value and every key of the blob stored before
\* that the payload does not mention has the value it had.
C22_BlobMerged ==
  [][\A p \in Procs :
       ( /\ pc[p] = "putUpdate" /\ pc'[p] # "putUpdate"
         /\ req[p].id \in 1..Len(maquinas) )
       => LET old == BlobObj(maquinas[req[p].id].observacao)
              new == BlobObj(maquinas'[req[p].id].observacao)
              pay == PayloadFields(req[p].body)
          IN /\ \A k \in ObjKeys(pay) : ObjGet(new, k) = ObjGet(pay, k)
             /\ \A k \in ObjKeys(old) \ ObjKeys(pay) : ObjGet(new, k) = ObjGet(old, k)]_vars

\* C23: a deactivation of an existing equipment sets its status to
\* Deactivated (2) and changes no other field, row or table, the association
\* rows included; on an id that matches no row it is answered NotFound and
\* changes nothing.
C23_Deactivate ==
  [][\A p \in Procs :
       ( pc[p] = "idle" /\ req'[p].op = "delete" /\ ~req'[p].hard /\ req'[p].id # 0 )
       => /\ pc'[p] = "done"
          /\ cidades' = cidades
          /\ usuarios_equipamentos' = usuarios_equipamentos
          /\ IF req'[p].id \in 1..Len(maquinas)
             THEN /\ resp'[p].status = 200
                  /\ maquinas' = [maquinas EXCEPT ![req'[p].id].status = 2]
             ELSE /\ resp'[p].status = 404 /\ resp'[p].error = "NotFound"
                  /\ maquinas' = maquinas]_vars

C23_Witness ==
  \E p \in Procs :
    /\ pc[p] = "done" /\ req[p].op = "delete" /\ ~req[p].hard
    /\ resp[p].status = 200
    /\ maquinas[req[p].id].status = 2
    /\ \E r \in BagToSet(usuarios_equipamentos) : r.maquina_id = req[p].id

(***************************************************************************)
(* normalizeStatusToCode applied to one input after the other              *)
(***************************************************************************)
StatusWords ==
  {<<"0">>, <<"1">>, <<"2">>, <<"3">>,
   <<"a", "t", "i", "v", "o">>,
   <<"a", "t", "e", "n", "d", "i", "m", "e", "n", "t", "o">>,
   <<"d", "e", "s", "a", "t", "i", "v", "a", "d", "o">>,
   <<"d", "e", "l", "e", "t", "a", "d", "o">>}
OtherWords ==
  {<<>>, <<" ">>, <<"4">>, <<"x">>, <<"a", "t", "i", "v", "a">>,
   <<"d", "e", "l", "e", "t", "a", "d">>, <<"1", "0">>, <<"a", "t", "i", " ", "v", "o">>}
StatusInputs ==
  {Str(w) : w \in StatusWords \cup OtherWords}
    \cup {Str(toUpperCase(w)) : w \in StatusWords \cup OtherWords}
    \cup {Str(<<" ">> \o w \o <<" ", " ">>) : w \in StatusWords \cup OtherWords}
    \cup {Str(<<" ">> \o toUpperCase(w) \o <<" ", " ">>) : w \in StatusWords}
    \cup {Num(n) : n \in 0..4}
    \cup {Undef, Null, NaN, Bool(TRUE), Bool(FALSE)}

\* a call normalizeStatusToCode(input)
NormalizeStatus(p, input) ==
  /\ pc[p] = "idle"
  /\ req' = [req EXCEPT ![p] = [NoReq EXCEPT !.op = "normalize",
                                             !.body = [NoBody EXCEPT !.status = input]]]
  /\ pc' = [pc EXCEPT ![p] = "done"]
  /\ resp' = [resp EXCEPT ![p] = [NoResp EXCEPT !.value = Num(normalizeStatusToCode(input))]]
  /\ UNCHANGED <<collation, cidades, maquinas, usuarios_equipamentos, txn>>

NextStatus ==
  \E p \in Caller :
    \/ \E x \in StatusInputs : NormalizeStatus(p, x)
    \/ Return(p)

SpecStatus == Init /\ [][NextStatus]_vars

\* the input x, trimmed and lower-cased, is one of the texts ws
StatusTextIn(x, ws) == ~IsNullish(x) /\ toLowerCase(trim(ToStr(x))) \in ws

NextCityConc ==
  \E p \in Procs :
    \/ \E u \in {Str(<<"S", "P">>), Str(<<"R", "J">>)} : ResolveCity(p, Str(<<"s", "a", "o">>), u)
    \/ CityExact(p)
    \/ CityPrefix(p)
    \/ CityInsert(p)
    \/ Return(p)

SpecCityConc == Init /\ [][NextCityConc]_vars

\* C25: whatever the interleaving of ensureCityByName calls, no two city rows
\* have the same normalized name and the same state code.
C25_NoDuplicateCity ==
  \A i, j \in 1..Len(cidades) :
    i # j => ~( /\ normalizeName(cidades[i].nome) = normalizeName(cidades[j].nome)
                /\ cidades[i].uf = cidades[j].uf )

(***************************************************************************)
(* Module reconciliation: the pool's connections                           *)
(***************************************************************************)
\* the connections the call of task p holds
Held(p) == txn[p].got - txn[p].rel

\* C26: a replaceModules call releases the connection it was given exactly
\* once, whether it commits, a statement fails or the rollback fails: at
\* most one connection is taken, it is held exactly while the transaction
\* runs, and a call that has ended has released what it took.
C26_ConnectionReleasedOnce ==
  \A p \in Procs :
    /\ txn[p].got \in 0..1
    /\ txn[p].rel \in 0..txn[p].got
    /\ txn[p].st \in {"none", "committed", "failed"} => Held(p) = 0
    /\ txn[p].st \in {"deleted", "inserted", "rollback"} => Held(p) = 1

C26_Witness ==
  \E p, q \in Procs :
    /\ p # q
    /\ txn[p].st = "failed" /\ txn[p].got = 1 /\ txn[p].rel = 1
    /\ txn[q].st = "committed" /\ txn[q].got = 1 /\ txn[q].rel = 1

(***************************************************************************)
(* Timeouts: the reconciliation that outlives its request.  The store      *)
(* answers every statement it is sent, so a transaction that can take a    *)
(* step takes one in the end.                                              *)
(***************************************************************************)
\* the steps of a reconciliation that the store's answer brings about
TxnProgress(p) ==
  \/ TxnConnect(p)
  \/ TxnDelete(p)
  \/ TxnInsert(p)
  \/ TxnCommit(p)
  \/ TxnRollback(p)

FairSpecTimeout ==
  Init /\ [][NextTimeout]_vars /\ \A p \in Caller : WF_vars(TxnProgress(p))

\* task p has answered 504 while its reconciliation was awaited
ModulesTimedOut(p) ==
  /\ pc[p] = "done" /\ req[p].op \in {"create", "update"}
  /\ resp[p].status = 504
  /\ txn[p].st # "none"

\* the reconciliation of task p is in flight
TxnRunning(p) == txn[p].st \in {"begun", "deleted", "inserted", "rollback"}

\* C27: after a create or an update has answered 504 for its reconciliation,
\* the transaction goes on: it is never dropped half-way, it ends committed
\* or rolled back, and the association rows of the equipment are either the
\* rows from before the DELETE or exactly the new row, never a partial
\* replacement.
C27_TimedOutReconciliationCompletes ==
  /\ [][\A p \in Procs :
          /\ ( pc[p] = "awaitModules" /\ pc'[p] = "done" /\ resp'[p].status = 504 )
             => txn'[p] = txn[p]
          /\ ( ModulesTimedOut(p) /\ TxnRunning(p) ) => txn'[p].st # "none"
          /\ ModulesTimedOut(p) =>
               \/ usuarios_equipamentos' = usuarios_equipamentos
               \/ /\ txn'[p].st = "committed"
                  /\ usuarios_equipamentos' =
                       (usuarios_equipamentos (-) RowsOf(usuarios_equipamentos, txn[p].mid))
                         (+) SetToBag({TxnRow(txn[p])})]_vars
  /\ \A p \in Procs :
       (ModulesTimedOut(p) /\ TxnRunning(p)) ~> (txn[p].st \in {"committed", "failed"})

C27_Witness ==
  \E p \in Procs :
    /\ ModulesTimedOut(p) /\ req[p].op = "update"
    /\ txn[p].st = "committed"
    /\ txn[p].del # EmptyBag
    /\ RowsOf(usuarios_equipamentos, txn[p].mid) = SetToBag({TxnRow(txn[p])})
    /\ txn[p].uid = 2

(***************************************************************************)
(* Creates and updates whose city text is split into name and state code,  *)
(* one request at a time                                                   *)
(***************************************************************************)
SplitBodies ==
  {[FullBody(Str(<<"A">>), Undef) EXCEPT !.cidade = c, !.uf = u] :
     c \in {Str(<<"a", "/", "b">>), Str(<<" ", "a", " ", "/", " ", "b", " ">>), Str(<<"a">>),
            Str(<<"a", "/">>), Str(<<"a", "/", "b", "/", "c">>), Str(<<"/", "b">>)},
     u \in {Undef, Str(<<"r", "j">>)}}
NoCityBodies ==
  {[FullBody(Str(<<"A">>), Undef) EXCEPT !.cidade = c, !.cidade_nome = n] :
     c \in {Undef, Null, Str(<<" ">>)}, n \in {Undef, Str(<<>>), Str(<<" ", " ">>)}}

NextSplit ==
  \E p \in Caller :
    \/ \E b \in SplitBodies : PostEquipamentos(p, b)
    \/ PostInsert(p)
    \/ \E id \in 1..MaxEquip, b \in SplitBodies \cup NoCityBodies : PutEquipamentos(p, id, b)
    \/ PutCurObs(p)
    \/ PutUpdate(p)
    \/ CityExact(p)
    \/ CityPrefix(p)
    \/ CityInsert(p)
    \/ Return(p)

SpecSplit == Init /\ [][NextSplit]_vars

\* the position of the first "/" of the text s, 0 when it has none
FirstSlash(s) ==
  IF \E i \in 1..Len(s) : s[i] = "/"
  THEN CHOOSE i \in 1..Len(s) : s[i] = "/" /\ \A j \in 1..(i - 1) : s[j] # "/"
  ELSE 0

\* C28: when a create or an update hands its city text to the resolver, a
\* text with a "/" gives as name the text before its first "/" and as state
\* code the text after it, trimmed and upper-cased (the uf field when that
\* text is empty); a text without "/" is the name as a whole.
C28_SplitOnFirstSlash ==
  [][\A p \in Procs :
       ( pc[p] = "idle" /\ pc'[p] = "cityExact" /\ req'[p].op \in {"create", "update"} )
       => LET b == req'[p].body
              texto == trim(ToStr(b.cidade))
              i == FirstSlash(texto)
              after == toUpperCase(trim(SubSeq(texto, i + 1, Len(texto))))
          IN IF i = 0
             THEN req'[p].nomeCidade = texto
             ELSE /\ req'[p].nomeCidade = trim(SubSeq(texto, 1, i - 1))
                  /\ req'[p].uf = IF after # <<>> THEN Str(after) ELSE CityUf(b.uf)]_vars

\* C29: an equipment whose status is Deleted has no association row, once the
\* soft delete that is removing its rows (if one is in flight) has answered.
C29_DeletedHasNoAssociation ==
  \A i \in 1..Len(maquinas) :
    ( /\ maquinas[i].status = 3
      /\ ~\E p \in Procs : pc[p] = "delAssoc" /\ req[p].id = i )
    => RowCount(i) = 0

\* C30: a full update whose body has no city text (no cidade and no
\* cidade_nome, or blank ones) never reaches ensureCityByName, leaves the
\* city table alone and, when its UPDATE finds the row, stores a null
\* cidade_id whatever the row referred to.
C30_NoCityTextClearsCity ==
  [][\A p \in Procs :
       ( /\ req'[p].op = "update" /\ ~StatusOnly(req'[p].body)
         /\ CidadeTexto(req'[p].body) = <<>> )
       => /\ pc'[p] \notin {"cityExact", "cityPrefix", "cityInsert"}
          /\ cidades' = cidades
          /\ ( pc[p] = "putUpdate" /\ pc'[p] = "done" /\ resp'[p].status = 200 )
             => maquinas'[req[p].id].cidade_id = Null]_vars

C30_Witness ==
  \E p \in Procs :
    /\ FullUpdateDone(p)
    /\ req[p].body.cidade = Str(<<" ">>) /\ req[p].body.cidade_nome = Undef
    /\ maquinas[req[p].id].cidade_id = Null
    /\ Len(maquinas) = 1 /\ Len(cidades) = 1

====
